---- MODULE Spec2Model ----
(***************************************************************************)
(* Model of the Chronos-2-small forecasting microservice                   *)
(* (src/python/server.py).                                                 *)
(*                                                                         *)
(* Numbers.  Prices and quantiles are floats in the service.  Here every   *)
(* price-like quantity is an integer count of 1e-13 units, so that the     *)
(* guard constant 1e-12 of the confidence formula is 10 units.  A float    *)
(* quotient is kept as an exact fraction [num, den] with den > 0, and the  *)
(* two round() calls and the two format conversions are computed on it.    *)
(* Float rounding error is not modelled.                                   *)
(*                                                                         *)
(* Optional values.  None is the empty sequence <<>>, a present value x    *)
(* is the one-element sequence <<x>>.                                      *)
(***************************************************************************)
EXTENDS Integers, Sequences, FiniteSets, TLC

None == <<>>

Some(x) == <<x>>

IsNone(o) == Len(o) = 0

Val(o) == o[1]

(***************************************************************************)
(* Bounds of the model.                                                    *)
(***************************************************************************)
\* largest prediction_length a request asks for
MaxPred == 2

\* SpecAlign: longest covariate array and largest target length
MaxArr == 3

MaxTarget == 4

(***************************************************************************)
(* Program constants.                                                      *)
(***************************************************************************)
\* server.py:128  if len(req.prices) < 15
MinPrices == 15

\* server.py:178  max(abs(current_price), 1e-12), in units of 1e-13
Eps == 10

\* server.py:169,171  the 0.01 threshold is 1 / ThresholdDen
ThresholdDen == 100

CovariateColumns == <<"rsi", "liquidity", "volume", "buy_pressure">>

(***************************************************************************)
(* Python primitives used by the service.                                  *)
(***************************************************************************)
Abs(x) == IF x < 0 THEN -x ELSE x

Max2(a, b) == IF b > a THEN b ELSE a

\* a[start:] for a list a and an int start (negative counts from the end)
PySliceFrom(a, start) ==
    LET n  == Len(a)
        s0 == IF start < 0 THEN start + n ELSE start
        s  == IF s0 < 0 THEN 0 ELSE IF s0 > n THEN n ELSE s0
    IN  [i \in 1..(n - s) |-> a[s + i]]

\* [x] * k
PyRepeat(x, k) == [i \in 1..(IF k < 0 THEN 0 ELSE k) |-> x]

\* float division a / b for b # 0, as a fraction with positive denominator
Div(a, b) == IF b > 0 THEN [num |-> a, den |-> b] ELSE [num |-> -a, den |-> -b]

\* round(num/den * scale) to the nearest integer, ties to even (den > 0)
RoundHalfEven(num, den) ==
    LET q == num \div den
        r == num - q * den
    IN  IF 2 * r < den THEN q
        ELSE IF 2 * r > den THEN q + 1
        ELSE IF q % 2 = 0 THEN q ELSE q + 1

\* round(x, digits) of a fraction x, as an integer count of 10^-digits
Round(x, scale) == RoundHalfEven(x.num * scale, x.den)

RECURSIVE Pow10(_)
Pow10(k) == IF k <= 0 THEN 1 ELSE 10 * Pow10(k - 1)

RECURSIVE Digits(_)
Digits(x) == IF x < 10 THEN 1 ELSE 1 + Digits(x \div 10)

\* f"{x:.8g}": x rounded to 8 significant digits
Fmt8g(x) ==
    LET a == Abs(x)
        d == Digits(a)
    IN  IF d <= 8 THEN x
        ELSE LET p == Pow10(d - 8)
                 m == RoundHalfEven(a, p) * p
             IN  IF x < 0 THEN -m ELSE m

(***************************************************************************)
(* _align (server.py:84-90).  The result is [raised, value]: raised is     *)
(* TRUE when arr[0] fails with IndexError on an empty list.                *)
(***************************************************************************)
\* _align keeping the first elements instead of the last
_alignHead(arr, length) ==
    IF IsNone(arr) THEN [raised |-> FALSE, value |-> None]
    ELSE IF Len(Val(arr)) >= length
         THEN [raised |-> FALSE, value |-> Some(SubSeq(Val(arr), 1, length))]
    ELSE IF Len(Val(arr)) = 0
         THEN [raised |-> TRUE, value |-> None]
    ELSE [raised |-> FALSE,
          value  |-> Some(PyRepeat(Val(arr)[1], length - Len(Val(arr))) \o Val(arr))]

_align(arr, length) ==
    IF IsNone(arr) THEN [raised |-> FALSE, value |-> None]
    ELSE IF Len(Val(arr)) >= length
         THEN [raised |-> FALSE, value |-> Some(PySliceFrom(Val(arr), -length))]
    ELSE IF Len(Val(arr)) = 0
         THEN [raised |-> TRUE, value |-> None]
    ELSE [raised |-> FALSE,
          value  |-> Some(PyRepeat(Val(arr)[1], length - Len(Val(arr))) \o Val(arr))]

(***************************************************************************)
(* _build_context_df (server.py:93-118).  Timestamps are minutes relative  *)
(* to the anchor `end`: the last candle is at 0, the one before at         *)
(* -candle_minutes, and so on.  The result is [raised, df, covariates_used]*)
(***************************************************************************)
\* the pairs with the liquidity and volume arrays exchanged
CovariateOfSwapped(req, i) ==
    CASE i = 1 -> req.rsi_history
      [] i = 2 -> req.volume_history
      [] i = 3 -> req.liquidity_history
      [] OTHER -> req.buy_pressure

\* the (column, array) pairs of the loop, server.py:107-112
CovariateOf(req, i) ==
    CASE i = 1 -> req.rsi_history
      [] i = 2 -> req.liquidity_history
      [] i = 3 -> req.volume_history
      [] OTHER -> req.buy_pressure

\* req.token or "token"
ItemId(req) ==
    IF IsNone(req.token) \/ Val(req.token) = "" THEN "token" ELSE Val(req.token)

\* pd.date_range(end=end, periods=n, freq=f"{candle_minutes}min")
DateRange(n, candle_minutes) == [i \in 1..n |-> -((n - i) * candle_minutes)]

\* the for loop of server.py:107-116, from column i on
RECURSIVE CovariateLoop(_, _, _, _, _)
CovariateLoop(req, n, i, cols, used) ==
    IF i > Len(CovariateColumns)
    THEN [raised |-> FALSE, cols |-> cols, covariates_used |-> used]
    ELSE LET aligned == _align(CovariateOf(req, i), n)
         IN  IF aligned.raised
             THEN [raised |-> TRUE, cols |-> cols, covariates_used |-> used]
             ELSE IF IsNone(aligned.value)
             THEN CovariateLoop(req, n, i + 1, cols, used)
             ELSE CovariateLoop(req, n, i + 1,
                                cols \o <<Val(aligned.value)>>,
                                Append(used, CovariateColumns[i]))

_build_context_df(req) ==
    LET n    == Len(req.prices)
        loop == CovariateLoop(req, n, 1, <<>>, <<>>)
    IN  [raised          |-> loop.raised,
         df              |-> [item_id    |-> ItemId(req),
                              timestamp  |-> DateRange(n, req.candle_minutes),
                              target     |-> req.prices,
                              covariates |-> loop.cols],
         covariates_used |-> loop.covariates_used]

(***************************************************************************)
(* The forecasting collaborator, pipeline.predict_df (called at            *)
(* server.py:144-151).  It is external and opaque: it may raise, and       *)
(* otherwise returns one row per future candle, prediction_length rows     *)
(* in all, in an order of its own choosing.  The quantiles of a row are    *)
(* placed around the last observed price; the last step has a band of its  *)
(* own, the steps before it share one.                                     *)
(***************************************************************************)
\* last-step median, as a move away from the last price
MedianMoves == {-2, -1, 0, 1, 2}

\* (high - low) / 2 of a step; a negative one is an inverted band
HalfWidths == {-1, 0, 1, 60}

Perms(k) == {f \in [1..k -> 1..k] : \A i, j \in 1..k : f[i] = f[j] => i = j}

PredRow(step, k, last, move, width, candle_minutes) ==
    \* the median falls by 3 units per step back from the last step
    LET median == last + move - (k - step) * 3
    IN  [timestamp |-> step * candle_minutes,
         q10       |-> median - width,
         q50       |-> median,
         q90       |-> median + width]

PredictDf(context_df, prediction_length, candle_minutes) ==
    LET k    == IF prediction_length < 0 THEN 0 ELSE prediction_length
        last == context_df.target[Len(context_df.target)]
    IN  {[raised |-> TRUE, rows |-> <<>>]}
        \cup
        {[raised |-> FALSE,
          rows   |-> [j \in 1..k |->
                        PredRow(order[j], k, last, move,
                                IF order[j] = k THEN width[1] ELSE width[2],
                                candle_minutes)]] :
            order \in Perms(k), move \in MedianMoves,
            width \in HalfWidths \X HalfWidths}

(***************************************************************************)
(* pred_df.sort_values("timestamp") (server.py:153)                        *)
(***************************************************************************)
RECURSIVE InsertByTimestamp(_, _)
InsertByTimestamp(row, sorted) ==
    IF sorted = <<>> THEN <<row>>
    ELSE IF row.timestamp < Head(sorted).timestamp THEN <<row>> \o sorted
    ELSE <<Head(sorted)>> \o InsertByTimestamp(row, Tail(sorted))

\* the rows taken in the collaborator's order
SortValuesSkipped(rows) == rows

RECURSIVE SortValues(_)
SortValues(rows) ==
    IF rows = <<>> THEN <<>>
    ELSE InsertByTimestamp(rows[Len(rows)], SortValues(SubSeq(rows, 1, Len(rows) - 1)))

\* QuantileForecast(low=row["0.1"], median=row["0.5"], high=row["0.9"])
QuantileForecast(row) == [low |-> row.q10, median |-> row.q50, high |-> row.q90]

(***************************************************************************)
(* Signal derivation (server.py:163-194)                                   *)
(***************************************************************************)
\* server.py:167-173 with inclusive comparisons
DirectionInclusive(pct_change) ==
    IF pct_change.num * ThresholdDen >= pct_change.den THEN "bullish"
    ELSE IF pct_change.num * ThresholdDen <= -pct_change.den THEN "bearish"
    ELSE "neutral"

\* server.py:167-173, on the fractional pct_change
Direction(pct_change) ==
    IF pct_change.num * ThresholdDen > pct_change.den THEN "bullish"
    ELSE IF pct_change.num * ThresholdDen < -pct_change.den THEN "bearish"
    ELSE "neutral"

RECURSIVE SumSpread(_)
SumSpread(forecasts) ==
    IF forecasts = <<>> THEN 0
    ELSE (Head(forecasts).high - Head(forecasts).low) + SumSpread(Tail(forecasts))

\* server.py:175-182: mean of (high - low) / max(abs(current_price), 1e-12)
AvgSpread(forecasts, current_price) ==
    [num |-> SumSpread(forecasts),
     den |-> Len(forecasts) * Max2(Abs(current_price), Eps)]

\* the clamp bounding only from above
Clamp01UpperOnly(x) ==
    IF x.num > x.den THEN [num |-> 1, den |-> 1] ELSE x

\* max(0.0, min(1.0, x))
Clamp01(x) ==
    IF x.num > x.den THEN [num |-> 1, den |-> 1]
    ELSE IF x.num < 0 THEN [num |-> 0, den |-> 1]
    ELSE x

\* server.py:183, as a count of thousandths
Confidence(forecasts, current_price) ==
    LET avg_spread == AvgSpread(forecasts, current_price)
    IN  Round(Clamp01([num |-> avg_spread.den - avg_spread.num,
                       den |-> avg_spread.den]), 1000)

\* server.py:185-194; the percent change is a count of hundredths of a percent
Summary(req, forecasts, pct_change, covariates_used) ==
    [sign              |-> IF pct_change.num >= 0 THEN "+" ELSE "",
     pct               |-> Round(pct_change, 100 * 100),
     prediction_length |-> req.prediction_length,
     candle_minutes    |-> req.candle_minutes,
     cov_note          |-> IF covariates_used # <<>> THEN Some(covariates_used) ELSE None,
     range_low         |-> Fmt8g(forecasts[1].low),
     range_high        |-> Fmt8g(forecasts[Len(forecasts)].high)]

(***************************************************************************)
(* The forecast handler (server.py:124-209), after the two guards.         *)
(* A run of the handler is the record [reply, context_df, invoked,         *)
(* pred_df]: the reply sent and the handler's locals when it ended.        *)
(***************************************************************************)
Run(status, detail, body, context_df, invoked, pred_df) ==
    [reply      |-> [status |-> status, detail |-> detail, body |-> body],
     context_df |-> context_df,
     invoked    |-> invoked,
     pred_df    |-> pred_df]

\* server.py:164 with a zero guard, as line 178 has one
PctChangeGuarded(median, current_price) ==
    [raised |-> FALSE,
     value  |-> Div(median - current_price, Max2(Abs(current_price), Eps))]

\* server.py:164: (median - current_price) / current_price, ZeroDivisionError at 0
PctChange(median, current_price) ==
    IF current_price = 0
    THEN [raised |-> TRUE, value |-> [num |-> 0, den |-> 1]]
    ELSE [raised |-> FALSE, value |-> Div(median - current_price, current_price)]

\* server.py:153-205: from the collaborator's rows to the response
Derive(req, built, rows_in) ==
    LET rows          == SortValues(rows_in)
        forecasts     == [i \in 1..Len(rows) |-> QuantileForecast(rows[i])]
        current_price == req.prices[Len(req.prices)]
    IN  IF forecasts = <<>>
        THEN Run(500, <<"list index out of range">>, None,
                 Some(built.df), TRUE, Some(rows_in))
        ELSE IF PctChange(forecasts[Len(forecasts)].median, current_price).raised
        THEN Run(500, <<"float division by zero">>, None,
                 Some(built.df), TRUE, Some(rows_in))
        ELSE LET pct_change ==
                     PctChange(forecasts[Len(forecasts)].median, current_price).value
             IN  Run(200, <<>>,
                     Some([token           |-> req.token,
                           current_price   |-> current_price,
                           forecasts       |-> forecasts,
                           direction       |-> Direction(pct_change),
                           confidence      |-> Confidence(forecasts, current_price),
                           pct_change      |-> Round(pct_change, 100 * 10000),
                           covariates_used |-> built.covariates_used,
                           summary         |-> Summary(req, forecasts, pct_change,
                                                       built.covariates_used)]),
                     Some(built.df), TRUE, Some(rows_in))

\* server.py:144-151 and the except clause 207-209 for a raising collaborator
Predicted(req, built, out) ==
    IF out.raised
    THEN Run(500, <<"predict_df failed">>, None, Some(built.df), TRUE, None)
    ELSE Derive(req, built, out.rows)

\* the call with the schema's default horizon instead of the request's
PredictionLengthDefault(req) == 3

\* prediction_length= argument of the call, server.py:146
PredictionLengthArg(req) == req.prediction_length

\* server.py:140-209: the runs the try block can take for a request
TryForecast(req) ==
    LET built == _build_context_df(req)
    IN  IF built.raised
        THEN {Run(500, <<"list index out of range">>, None, None, FALSE, None)}
        ELSE {Predicted(req, built, out) :
                out \in PredictDf(built.df, PredictionLengthArg(req),
                                  req.candle_minutes)}

\* server.py:128 with the comparison off by one
TooFewInclusive(req) == Len(req.prices) <= MinPrices

\* server.py:128
TooFew(req) == Len(req.prices) < MinPrices

\* server.py:126-129 with the two guards in the other order
ForecastLengthFirst(model, req) ==
    IF TooFew(req)
    THEN {Run(400, <<"Need >= ", MinPrices, " price points, got ", Len(req.prices)>>,
              None, None, FALSE, None)}
    ELSE IF IsNone(model)
    THEN {Run(503, <<"Model not loaded yet">>, None, None, FALSE, None)}
    ELSE TryForecast(req)

\* server.py:126-129 then the try block
Forecast(model, req) ==
    IF IsNone(model)
    THEN {Run(503, <<"Model not loaded yet">>, None, None, FALSE, None)}
    ELSE IF TooFew(req)
    THEN {Run(400, <<"Need >= ", MinPrices, " price points, got ", Len(req.prices)>>,
              None, None, FALSE, None)}
    ELSE TryForecast(req)

\* server.py:212-218
Health(model) ==
    [status |-> 200, detail |-> <<>>,
     body   |-> Some([status       |-> "ok",
                      model        |-> "chronos-2-small",
                      model_loaded |-> ~IsNone(model)])]

(***************************************************************************)
(* Requests the clients send.                                              *)
(***************************************************************************)
PriceLens == {0, 10, MinPrices - 1, MinPrices, MinPrices + 1}

LastPrices == {0, 5, 100, -100}

\* a series of the given length: 100 units throughout, then the last price
PriceSeries(len, last) == [i \in 1..len |-> IF i = len THEN last ELSE 100]

\* the schema's defaults, and a client naming its token and candle size
Clients ==
    {[token |-> None, candle_minutes |-> 5],
     [token |-> Some("SOL"), candle_minutes |-> 1]}

CovariateArrays == {None, Some(<<>>), Some(<<3, 4>>)}

ForecastRequests ==
    {[prices            |-> PriceSeries(len, last),
      token             |-> client.token,
      rsi_history       |-> cov[1],
      liquidity_history |-> cov[2],
      volume_history    |-> cov[3],
      buy_pressure      |-> cov[4],
      prediction_length |-> prediction_length,
      candle_minutes    |-> client.candle_minutes] :
        len \in PriceLens, last \in LastPrices, client \in Clients,
        cov \in [1..4 -> CovariateArrays],
        prediction_length \in 0..MaxPred}

(***************************************************************************)
(* State.                                                                  *)
(***************************************************************************)
VARIABLES
    pipeline,       \* the module global: None, or the loaded pipeline
    observedReady,  \* some request has found pipeline loaded
    req,            \* the request being answered, None between requests
    context_df,     \* handler local: the context frame, once built
    invoked,        \* handler local: predict_df was called
    pred_df,        \* handler local: what predict_df returned
    reply,          \* the reply to req
    arr,            \* SpecAlign: the covariate array given to _align
    length,         \* SpecAlign: the target length given to _align
    aligned         \* SpecAlign: None, or the result of _align(arr, length)

service == <<pipeline, observedReady, req, context_df, invoked, pred_df, reply>>

harness == <<arr, length, aligned>>

vars == <<service, harness>>

Ready == Some("chronos-2-small")

Init ==
    /\ pipeline = None
    /\ observedReady = FALSE
    /\ req = None
    /\ context_df = None
    /\ invoked = FALSE
    /\ pred_df = None
    /\ reply = None
    /\ arr = None
    /\ length = 0
    /\ aligned = None

\* server.py:33-44, the startup hook
load_model ==
    /\ IsNone(pipeline)
    /\ pipeline' = Ready
    /\ UNCHANGED <<observedReady, req, context_df, invoked, pred_df, reply, harness>>

\* the handler dropping the handle after a failed forecast
PipelineDroppedOnError(model, run) == IF run.reply.status = 500 THEN None ELSE model

\* the handler's effect on the module global: it only reads it
PipelineAfterForecast(model, run) == model

\* POST /forecast, server.py:124-209
forecast ==
    /\ IsNone(req)
    /\ \E r \in ForecastRequests :
         \E run \in Forecast(pipeline, r) :
            /\ req' = Some([path |-> "/forecast", body |-> Some(r)])
            /\ reply' = Some(run.reply)
            /\ context_df' = run.context_df
            /\ invoked' = run.invoked
            /\ pred_df' = run.pred_df
            /\ pipeline' = PipelineAfterForecast(pipeline, run)
    /\ observedReady' = (observedReady \/ ~IsNone(pipeline))
    /\ UNCHANGED harness

\* GET /health, server.py:212-218
health ==
    /\ IsNone(req)
    /\ req' = Some([path |-> "/health", body |-> None])
    /\ reply' = Some(Health(pipeline))
    /\ observedReady' = (observedReady \/ ~IsNone(pipeline))
    /\ UNCHANGED <<pipeline, context_df, invoked, pred_df, harness>>

\* the reply is sent; everything request-scoped is discarded
complete ==
    /\ ~IsNone(req)
    /\ req' = None
    /\ reply' = None
    /\ context_df' = None
    /\ invoked' = FALSE
    /\ pred_df' = None
    /\ UNCHANGED <<pipeline, observedReady, harness>>

Next == load_model \/ forecast \/ health \/ complete

Spec == Init /\ [][Next]_vars

(***************************************************************************)
(* SpecAlign: _align applied to every covariate array of at most MaxArr    *)
(* elements (or None) and every target length up to MaxTarget.             *)
(***************************************************************************)
AlignValues == {1, 2, 3}

AlignArrays ==
    {None} \cup {Some(a) : a \in UNION {[1..k -> AlignValues] : k \in 0..MaxArr}}

InitAlign ==
    /\ pipeline = None
    /\ observedReady = FALSE
    /\ req = None
    /\ context_df = None
    /\ invoked = FALSE
    /\ pred_df = None
    /\ reply = None
    /\ arr \in AlignArrays
    /\ length \in 0..MaxTarget
    /\ aligned = None

align ==
    /\ IsNone(aligned)
    /\ aligned' = Some(_align(arr, length))
    /\ UNCHANGED <<service, arr, length>>

NextAlign == align

SpecAlign == InitAlign /\ [][NextAlign]_vars

(***************************************************************************)
(* Vocabulary of the properties.                                           *)
(***************************************************************************)
Range(f) == {f[i] : i \in DOMAIN f}

\* rq is a POST /forecast request being answered
IsForecast(rq) == ~IsNone(rq) /\ Val(rq).path = "/forecast"

Body(rq) == Val(Val(rq).body)

\* this step is the forecast handler answering a request
ForecastStep == IsNone(req) /\ IsForecast(req')

\* this step is the health handler answering a request
HealthStep == IsNone(req) /\ ~IsNone(req') /\ Val(req').path = "/health"

\* the state holds the successful reply to a forecast request
Succeeded == IsForecast(req) /\ Val(reply).status = 200

Response == Val(Val(reply).body)

ResponseFields ==
    {"token", "current_price", "forecasts", "direction", "confidence",
     "pct_change", "covariates_used", "summary"}

\* the covariate arrays of a request, in the order of CovariateColumns
Supplied(r) ==
    <<r.rsi_history, r.liquidity_history, r.volume_history, r.buy_pressure>>

\* the row of a non-empty frame with the latest, and the earliest, timestamp
LatestRow(rows) ==
    CHOOSE x \in Range(rows) : \A y \in Range(rows) : y.timestamp <= x.timestamp

EarliestRow(rows) ==
    CHOOSE x \in Range(rows) : \A y \in Range(rows) : x.timestamp <= y.timestamp

(***************************************************************************)
(* C1.  While the pipeline is not loaded, the forecast handler answers     *)
(* every request, short price series included, with 503 "Model not loaded  *)
(* yet"; it builds no context frame, does not call the collaborator and    *)
(* assembles no response body.                                             *)
(***************************************************************************)
C1_UninitializedRejected ==
    [][(ForecastStep /\ IsNone(pipeline)) =>
          /\ Val(reply').status = 503
          /\ Val(reply').detail = <<"Model not loaded yet">>
          /\ IsNone(Val(reply').body)
          /\ IsNone(context_df')
          /\ ~invoked'
          /\ IsNone(pred_df')]_vars

\* a request with fewer than 15 prices was answered 503 before the load
C1_Witness ==
    /\ IsForecast(req)
    /\ IsNone(pipeline)
    /\ Len(Body(req).prices) < 15
    /\ Val(reply).status = 503

(***************************************************************************)
(* C2.  With the pipeline loaded, a forecast request is answered 400       *)
(* exactly when it has fewer than 15 prices, whatever its other fields;    *)
(* the message carries 15 and the actual count, and the collaborator is    *)
(* not called.                                                             *)
(***************************************************************************)
C2_ShortSeriesRejected ==
    [][(ForecastStep /\ ~IsNone(pipeline)) =>
          /\ (Len(Body(req').prices) < 15) <=> (Val(reply').status = 400)
          /\ (Val(reply').status = 400) =>
                /\ Val(reply').detail =
                      <<"Need >= ", 15, " price points, got ", Len(Body(req').prices)>>
                /\ IsNone(Val(reply').body)
                /\ IsNone(context_df')
                /\ ~invoked']_vars

\* a request with 14 prices, all four covariates and a token was answered 400
C2_Witness ==
    /\ IsForecast(req)
    /\ Len(Body(req).prices) = 14
    /\ \A i \in 1..4 : ~IsNone(Supplied(Body(req))[i])
    /\ ~IsNone(Body(req).token)
    /\ Val(reply).status = 400

(***************************************************************************)
(* C3.  The pipeline goes from not loaded to loaded and never back: no     *)
(* forecast or health request writes it, a loaded pipeline never changes,  *)
(* and once a request has found it loaded no later request is answered     *)
(* 503 or told that the model is not loaded.                               *)
(***************************************************************************)
C3_NoReverseTransition ==
    [][/\ (ForecastStep \/ HealthStep) => pipeline' = pipeline
       /\ ~IsNone(pipeline) => pipeline' = pipeline
       /\ pipeline' # pipeline => (IsNone(pipeline) /\ pipeline' = Ready)
       /\ (observedReady /\ ForecastStep) => Val(reply').status # 503
       /\ (observedReady /\ HealthStep) => Val(Val(reply').body).model_loaded]_vars

\* after some request found the pipeline loaded, a failed forecast is answered
C3_Witness ==
    /\ observedReady
    /\ IsForecast(req)
    /\ Val(reply).status = 500
    /\ pipeline = Ready

(***************************************************************************)
(* C4.  A forecast request ends in exactly one of: a complete response     *)
(* (200), 400, 503 or 500, and an error reply carries a message and no     *)
(* response body.  Past the two guards, a raising collaborator, a          *)
(* collaborator returning no rows, a last price of 0 or an empty           *)
(* covariate array each give 500; a response is returned only if none of   *)
(* them happened, and then it has every field.                             *)
(***************************************************************************)
DerivationFailed(r, inv, pdf) ==
    \/ \E i \in 1..4 : Supplied(r)[i] = Some(<<>>)
    \/ inv /\ IsNone(pdf)
    \/ pdf = Some(<<>>)
    \/ r.prices[Len(r.prices)] = 0

C4_AtomicOutcome ==
    [][ForecastStep =>
          /\ Val(reply').status \in {200, 400, 503, 500}
          /\ (Val(reply').status = 200) <=> ~IsNone(Val(reply').body)
          /\ (Val(reply').status # 200) => Val(reply').detail # <<>>
          /\ (Val(reply').status = 200) =>
                /\ DOMAIN Val(Val(reply').body) = ResponseFields
                /\ ~IsNone(context_df')
                /\ invoked'
                /\ ~IsNone(pred_df')
          /\ (~IsNone(pipeline) /\ Len(Body(req').prices) >= 15) =>
                /\ Val(reply').status \in {200, 500}
                /\ DerivationFailed(Body(req'), invoked', pred_df') =>
                      (Val(reply').status = 500 /\ IsNone(Val(reply').body))]_vars

\* a request with a last price of 0 got rows from the collaborator and a 500
C4_Witness ==
    /\ IsForecast(req)
    /\ Len(Body(req).prices) >= 15
    /\ Body(req).prices[Len(Body(req).prices)] = 0
    /\ ~IsNone(pred_df)
    /\ Val(pred_df) # <<>>
    /\ Val(reply).status = 500
    /\ IsNone(Val(reply).body)

(***************************************************************************)
(* C5.  _align(arr, n) for n >= 1 and a non-empty arr has exactly n        *)
(* elements: the last n of arr when arr has at least n, and otherwise      *)
(* n - len(arr) copies of arr[0] followed by arr.  For an absent arr the   *)
(* result is absent.                                                       *)
(***************************************************************************)
C5_Align ==
    ~IsNone(aligned) =>
        /\ IsNone(arr) => (~Val(aligned).raised /\ IsNone(Val(aligned).value))
        /\ (~IsNone(arr) /\ Val(arr) # <<>> /\ length >= 1) =>
              /\ ~Val(aligned).raised
              /\ ~IsNone(Val(aligned).value)
              /\ LET a   == Val(arr)
                     out == Val(Val(aligned).value)
                     pad == length - Len(a)
                 IN  /\ Len(out) = length
                     /\ Len(a) >= length =>
                           \A i \in 1..length : out[i] = a[Len(a) - length + i]
                     /\ Len(a) < length =>
                           /\ \A i \in 1..pad : out[i] = a[1]
                           /\ \A i \in 1..Len(a) : out[pad + i] = a[i]

\* a longer array was trimmed to a target of at least 2
C5_Witness ==
    /\ ~IsNone(aligned)
    /\ ~IsNone(arr)
    /\ length >= 2
    /\ Len(Val(arr)) > length
    /\ Val(arr)[1] # Val(arr)[Len(Val(arr))]

(***************************************************************************)
(* C6.  covariates_used of a response names exactly the covariates the     *)
(* request supplied, each once, in the order rsi, liquidity, volume,       *)
(* buy_pressure.                                                           *)
(***************************************************************************)
ColumnIndex(name) == CHOOSE i \in 1..4 : CovariateColumns[i] = name

C6_CovariatesUsed ==
    Succeeded =>
        LET used == Response.covariates_used
        IN  /\ \A i \in 1..4 :
                  (CovariateColumns[i] \in Range(used)) <=>
                      ~IsNone(Supplied(Body(req))[i])
            /\ Range(used) \subseteq Range(CovariateColumns)
            /\ Cardinality(Range(used)) = Len(used)
            /\ \A a, b \in 1..Len(used) :
                  a < b => ColumnIndex(used[a]) < ColumnIndex(used[b])

\* a response to a request that supplied liquidity and buy_pressure only
C6_Witness ==
    /\ Succeeded
    /\ IsNone(Body(req).rsi_history)
    /\ ~IsNone(Body(req).liquidity_history)
    /\ IsNone(Body(req).volume_history)
    /\ ~IsNone(Body(req).buy_pressure)
    /\ Response.covariates_used = <<"liquidity", "buy_pressure">>

(***************************************************************************)
(* C7.  With P the last price and m the median of the latest forecast      *)
(* row, the direction of a response is "bullish" exactly when              *)
(* (m - P) / P > 0.01, "bearish" exactly when (m - P) / P < -0.01 and      *)
(* "neutral" otherwise; a change of exactly 0.01 or -0.01 is neutral.      *)
(* The comparisons are multiplied out, so a negative P turns them round.   *)
(***************************************************************************)
ChangeAbove(m, P) == (P > 0 /\ 100 * (m - P) > P) \/ (P < 0 /\ 100 * (m - P) < P)

ChangeBelow(m, P) == (P > 0 /\ 100 * (m - P) < -P) \/ (P < 0 /\ 100 * (m - P) > -P)

C7_Direction ==
    Succeeded =>
        LET P == Body(req).prices[Len(Body(req).prices)]
            m == LatestRow(Val(pred_df)).q50
        IN  /\ Response.direction \in {"bullish", "bearish", "neutral"}
            /\ (Response.direction = "bullish") <=> ChangeAbove(m, P)
            /\ (Response.direction = "bearish") <=> ChangeBelow(m, P)
            /\ (100 * (m - P) = P \/ 100 * (m - P) = -P) =>
                  Response.direction = "neutral"

\* a response whose change is exactly 0.01, from more than one forecast row
C7_Witness ==
    /\ Succeeded
    /\ Len(Val(pred_df)) >= 2
    /\ LET P == Body(req).prices[Len(Body(req).prices)]
           m == LatestRow(Val(pred_df)).q50
       IN  100 * (m - P) = P /\ P > 0
    /\ Response.direction = "neutral"

(***************************************************************************)
(* C8.  The confidence of a response, counted in thousandths, lies in      *)
(* 0..1000 for any rows and any non-zero last price, inverted bands and    *)
(* mean relative spreads above 1 included; when every row has high = low   *)
(* it is 1000.                                                             *)
(***************************************************************************)
C8_Confidence ==
    Succeeded =>
        /\ Response.confidence \in 0..1000
        /\ (\A row \in Range(Val(pred_df)) : row.q90 = row.q10) =>
              Response.confidence = 1000

\* a response whose rows are all 120 units wide around a price of 100 units
C8_Witness ==
    /\ Succeeded
    /\ Abs(Body(req).prices[Len(Body(req).prices)]) = 100
    /\ \A row \in Range(Val(pred_df)) : row.q90 - row.q10 = 120
    /\ Response.confidence = 0

(***************************************************************************)
(* C9.  The forecasts of a response are exactly prediction_length many.    *)
(***************************************************************************)
C9_ForecastCount ==
    Succeeded => Len(Response.forecasts) = Body(req).prediction_length

\* a response to a request for two candles
C9_Witness ==
    /\ Succeeded
    /\ Body(req).prediction_length = 2
    /\ Len(Response.forecasts) = 2

(***************************************************************************)
(* C10.  Whatever the order of the collaborator's rows, the i-th forecast  *)
(* of a response is the row with the i-th smallest timestamp; the change   *)
(* and the direction come from the median of the latest row, the           *)
(* summary's range from the low of the earliest row and the high of the    *)
(* latest; and the same rows in any other order give the same reply.       *)
(***************************************************************************)
Reordered(rows, perm) == [i \in 1..Len(rows) |-> rows[perm[i]]]

C10_TimestampOrder ==
    Succeeded =>
        LET rows   == Val(pred_df)
            P      == Body(req).prices[Len(Body(req).prices)]
            latest == LatestRow(rows)
            built  == [df |-> Val(context_df),
                       covariates_used |-> Response.covariates_used]
        IN  /\ Len(Response.forecasts) = Len(rows)
            /\ \A i \in 1..Len(rows) :
                  \E row \in Range(rows) :
                     /\ Cardinality({y \in Range(rows) : y.timestamp < row.timestamp}) = i - 1
                     /\ Response.forecasts[i] =
                           [low |-> row.q10, median |-> row.q50, high |-> row.q90]
            /\ Response.pct_change = RoundHalfEven((latest.q50 - P) * 1000000 * (IF P < 0 THEN -1 ELSE 1), Abs(P))
            /\ (Response.direction = "bullish") <=> ChangeAbove(latest.q50, P)
            /\ (Response.direction = "bearish") <=> ChangeBelow(latest.q50, P)
            /\ Response.summary.range_low = EarliestRow(rows).q10
            /\ Response.summary.range_high = latest.q90
            /\ \A perm \in Perms(Len(rows)) :
                  Derive(Body(req), built, Reordered(rows, perm)).reply = Val(reply)

\* a response made from rows the collaborator returned latest first
C10_Witness ==
    /\ Succeeded
    /\ Len(Val(pred_df)) >= 2
    /\ Val(pred_df)[1].timestamp > Val(pred_df)[2].timestamp
    /\ Val(pred_df)[1].q50 # Val(pred_df)[2].q50

====
